---- MODULE Spec2Model ----
(***************************************************************************)
(* Model of the PrepHires scoring engine (scoring.py) and of the request   *)
(* handlers that call it (main.py).                                        *)
(*                                                                         *)
(* Text is a sequence of one-character strings.  Python floats are IEEE    *)
(* doubles; they are modelled exactly as fixed-point numbers of four       *)
(* 20-bit limbs, every arithmetic result rounded to 53 significant bits,   *)
(* ties to even, as the hardware does.                                     *)
(***************************************************************************)
EXTENDS Integers, Sequences, FiniteSets, TLC

(***************************************************************************)
(* Characters and strings                                                  *)
(***************************************************************************)
UPPER ==
  <<"A","B","C","D","E","F","G","H","I","J","K","L","M",
    "N","O","P","Q","R","S","T","U","V","W","X","Y","Z">>

LOWER ==
  <<"a","b","c","d","e","f","g","h","i","j","k","l","m",
    "n","o","p","q","r","s","t","u","v","w","x","y","z">>

\* The characters of the model, in code-point order.
ALPHABET ==
  <<"\t", "\n", " ", ",", "0">> \o UPPER \o LOWER

Chars == { ALPHABET[i] : i \in 1..Len(ALPHABET) }

\* ord(c), up to an order-preserving renumbering.
ord == [ c \in Chars |-> CHOOSE i \in 1..Len(ALPHABET) : ALPHABET[i] = c ]

\* What the regex class \s and str.strip() treat as whitespace.
isspace(c) == c \in {" ", "\t", "\n"}

\* str.lower() on one character.
lowerChar ==
  [ c \in Chars |->
      IF \E i \in 1..Len(UPPER) : UPPER[i] = c
      THEN LOWER[CHOOSE i \in 1..Len(UPPER) : UPPER[i] = c]
      ELSE c ]

\* str.lower()
lower(txt) == [ i \in 1..Len(txt) |-> lowerChar[txt[i]] ]

\* Python's  w in t  on strings: w occurs as a contiguous substring of t.
Contains(w, t) ==
  \E i \in 1..(Len(t) - Len(w) + 1) :
    \A j \in 1..Len(w) : t[i + j - 1] = w[j]

\* Python's  a < b  on strings: lexicographic by code point.
StrLess(a, b) ==
  \E i \in 1..Len(b) :
    /\ i <= Len(a) + 1
    /\ \A j \in 1..(i - 1) : a[j] = b[j]
    /\ (i = Len(a) + 1 \/ ord[a[i]] < ord[b[i]])

\* sorted(S) for a set S of strings.
sorted(S) ==
  [ k \in 1..Cardinality(S) |->
      CHOOSE s \in S : Cardinality({ r \in S : StrLess(r, s) }) = k - 1 ]

\* " ".join(parts)
RECURSIVE join(_)
join(parts) ==
  IF parts = <<>> THEN <<>>
  ELSE IF Len(parts) = 1 THEN parts[1]
  ELSE parts[1] \o <<" ">> \o join(Tail(parts))

\* clean without the .strip()
clean_nostrip(txt) ==
  LET marked == [ i \in 1..Len(txt) |->
                    IF isspace(txt[i])
                    THEN IF i > 1 /\ isspace(txt[i - 1]) THEN "" ELSE " "
                    ELSE txt[i] ]
  IN  SelectSeq(marked, LAMBDA c : c # "")

\* clean(txt): re.sub(r"\s+", " ", txt).strip()
clean(txt) ==
  LET n      == Len(txt)
      marked == [ i \in 1..n |->
                    IF isspace(txt[i])
                    THEN IF i > 1 /\ isspace(txt[i - 1]) THEN "" ELSE " "
                    ELSE txt[i] ]
      sub    == SelectSeq(marked, LAMBDA c : c # "")
      m      == Len(sub)
      first  == IF m >= 1 /\ sub[1] = " " THEN 2 ELSE 1
      last   == IF m >= 1 /\ sub[m] = " " THEN m - 1 ELSE m
  IN  SubSeq(sub, first, last)

(***************************************************************************)
(* Python float arithmetic.  A non-negative double x < 2^11 is the tuple   *)
(* <<l1,l2,l3,l4>> with x = (l1 + l2*B + l3*B^2 + l4*B^3) * 2^-72; every   *)
(* non-zero double of the program is at least 1/480, so its 53 significant *)
(* bits lie above the unit 2^-72.                                          *)
(***************************************************************************)
B == 2^20

ONE == 2^12   \* the top limb of 1.0

MANT == 53    \* significant bits of a double

FZero == <<0, 0, 0, 0>>

FromInt(n) == <<0, 0, 0, n * ONE>>

\* propagate carries so that the three low limbs are below B
Carry(l) ==
  LET s2 == l[2] + (l[1] \div B)
      s3 == l[3] + (s2 \div B)
      s4 == l[4] + (s3 \div B)
  IN  <<l[1] % B, s2 % B, s3 % B, s4>>

\* number of bits of the natural number n
blen(n) == IF n = 0 THEN 0 ELSE CHOOSE k \in 1..30 : 2^(k - 1) <= n /\ n < 2^k

BitLen(l) ==
  IF l[4] > 0 THEN 60 + blen(l[4])
  ELSE IF l[3] > 0 THEN 40 + blen(l[3])
  ELSE IF l[2] > 0 THEN 20 + blen(l[2])
  ELSE blen(l[1])

\* x < y
FLess(x, y) ==
  \E i \in 1..4 : x[i] < y[i] /\ \A j \in (i + 1)..4 : x[j] = y[j]

\* the bits of l below bit d, d > 0; e is what of d exceeds one limb
LowBits(l, d, e) ==
  IF d <= 20 THEN l[1] % (2^d) ELSE l[1] + (l[2] % (2^e)) * B

\* whether bit d of l is set
OddAt(l, d, e) ==
  IF d < 20 THEN (l[1] \div (2^d)) % 2 = 1 ELSE (l[2] \div (2^e)) % 2 = 1

\* l with the bits below bit d cleared
Truncate(l, d, e) ==
  IF d <= 20 THEN <<l[1] - (l[1] % (2^d)), l[2], l[3], l[4]>>
             ELSE <<0, l[2] - (l[2] % (2^e)), l[3], l[4]>>

\* l plus one unit of bit d
NextUp(l, d, e) ==
  IF d < 20 THEN Carry(<<l[1] + 2^d, l[2], l[3], l[4]>>)
            ELSE Carry(<<l[1], l[2] + 2^e, l[3], l[4]>>)

\* round half to even: up when the dropped bits exceed half a unit, or equal
\* it with something below them or an odd kept part
RoundsUp(low, half, sticky, odd) ==
  low > half \/ (low = half /\ (sticky \/ odd))

\* l rounded at bit d
RoundAt(l, sticky, d, e) ==
  IF RoundsUp(LowBits(l, d, e), 2^(d - 1), sticky, OddAt(l, d, e))
  THEN NextUp(Truncate(l, d, e), d, e)
  ELSE Truncate(l, d, e)

\* l rounded so that all but its top MANT bits are zero; d is the number of
\* bits to drop
RoundTo(l, sticky, d) ==
  IF d <= 0 THEN l ELSE RoundAt(l, sticky, d, IF d > 20 THEN d - 20 ELSE 0)

\* Round the exact value l (plus a non-zero amount below the unit when
\* sticky) to 53 significant bits, ties to even.
Round53(l, sticky) == RoundTo(l, sticky, BitLen(l) - MANT)

\* n / d for integers n >= 0, d > 0 (true division, correctly rounded)
FDiv(n, d) ==
  LET t4 == n * ONE
      q4 == t4 \div d
      r4 == t4 % d
      q3 == (r4 * B) \div d
      r3 == (r4 * B) % d
      q2 == (r3 * B) \div d
      r2 == (r3 * B) % d
      q1 == (r2 * B) \div d
      r1 == (r2 * B) % d
  IN  Round53(<<q1, q2, q3, q4>>, r1 # 0)

\* v * x for an integer v >= 0 and a double x
FMul(v, x) == Round53(Carry(<<v * x[1], v * x[2], v * x[3], v * x[4]>>), FALSE)

\* x + y
FAdd(x, y) ==
  Round53(Carry(<<x[1] + y[1], x[2] + y[2], x[3] + y[3], x[4] + y[4]>>), FALSE)

\* min(x, y): the first argument unless the second is smaller
FMin(x, y) == IF FLess(y, x) THEN y ELSE x

\* round(x) with no ndigits: nearest integer, ties to the even one
round(x) ==
  LET ip   == x[4] \div ONE
      frac == <<x[1], x[2], x[3], x[4] % ONE>>
      half == <<0, 0, 0, ONE \div 2>>
  IN  IF FLess(half, frac) THEN ip + 1
      ELSE IF FLess(frac, half) THEN ip
      ELSE IF ip % 2 = 0 THEN ip ELSE ip + 1

Min(a, b) == IF b < a THEN b ELSE a
Max(a, b) == IF b > a THEN b ELSE a

(***************************************************************************)
(* scoring.py                                                              *)
(***************************************************************************)
\* The keyword bank as the module is loaded.
KEYWORD_BANK ==
  << <<"l","e","a","d","e","r","s","h","i","p">>,
     <<"t","e","a","m">>,
     <<"s","t","r","a","t","e","g","y">>,
     <<"g","r","o","w","t","h">>,
     <<"p","r","o","d","u","c","t">>,
     <<"s","a","l","e","s">>,
     <<"m","a","r","k","e","t","i","n","g">>,
     <<"i","n","n","o","v","a","t","i","o","n">>,
     <<"a","i">>,
     <<"d","a","t","a">>,
     <<"a","n","a","l","y","s","i","s">>,
     <<"m","a","n","a","g","e","m","e","n","t">>,
     <<"c","u","s","t","o","m","e","r">>,
     <<"r","e","s","u","l","t","s">>,
     <<"e","x","p","e","r","i","e","n","c","e">>,
     <<"e","x","p","e","r","t">>,
     <<"s","t","a","k","e","h","o","l","d","e","r">>,
     <<"p","r","o","j","e","c","t">>,
     <<"r","e","v","e","n","u","e">>,
     <<"k","p","i">>,
     <<"o","k","r">>,
     <<"p","y","t","h","o","n">>,
     <<"s","q","l">>,
     <<"e","x","c","e","l">>,
     <<"c","o","m","m","u","n","i","c","a","t","i","o","n">>,
     <<"c","o","l","l","a","b","o","r","a","t","i","o","n">>,
     <<"p","r","o","b","l","e","m"," ","s","o","l","v","i","n","g">> >>

\* The signal words of section_score.
SIGNAL_WORDS ==
  << <<"l","e","a","d">>,
     <<"d","e","l","i","v","e","r">>,
     <<"i","m","p","r","o","v","e">>,
     <<"i","n","c","r","e","a","s","e">>,
     <<"o","p","t","i","m","i","z","e">>,
     <<"a","c","h","i","e","v","e">>,
     <<"r","e","d","u","c","e","d">>,
     <<"b","u","i","l","t">>,
     <<"l","a","u","n","c","h","e","d">>,
     <<"m","a","n","a","g","e","d">>,
     <<"r","e","s","u","l","t","s">> >>

VARIABLES
  GLOBAL_KEYWORDS,   \* scoring.GLOBAL_KEYWORDS, the module-level list
  call,              \* the arguments of a call of one scoring function
  ret,               \* what the call returned, NONE before it ran
  req,               \* the requests in flight: handler, position, locals
  frame              \* the local variables of the calls of score_profile

NONE == [kind |-> "none"]

\* fields.get(k, default)
get(d, k, default) == IF k \in DOMAIN d THEN d[k] ELSE default

\* the number of places of the text low at which the word w starts
Occurrences(w, low) ==
  Cardinality({ i \in 1..(Len(low) - Len(w) + 1) :
                  \A j \in 1..Len(w) : low[i + j - 1] = w[j] })

RECURSIVE SumOccurrences(_, _)
SumOccurrences(low, n) ==
  IF n = 0 THEN 0
  ELSE SumOccurrences(low, n - 1) + Occurrences(SIGNAL_WORDS[n], low)

\* signals, were every occurrence of a signal word counted
signals_occurrences(t) ==
  LET low == lower(t) IN SumOccurrences(low, Len(SIGNAL_WORDS))

\* sum(w in t.lower() for w in [...]): one per signal word present
signals(t) ==
  LET low == lower(t)
  IN  Cardinality({ i \in 1..Len(SIGNAL_WORDS) : Contains(SIGNAL_WORDS[i], low) })

\* coverage with the quotient upside down
coverage_points_inverted(L, min_len) ==
  FMul(60, FMin(FromInt(1), FDiv(min_len * 4, L)))

\* coverage without the min(1.0, ...)
coverage_points_unclamped(L, min_len) ==
  FMul(60, FDiv(L, min_len * 4))

\* 60*coverage, the length part of raw
coverage_points(L, min_len) ==
  FMul(60, FMin(FromInt(1), FDiv(L, min_len * 4)))

\* 40*signal_ratio, the signal part of raw
signal_points(n) ==
  FMul(40, FMin(FromInt(1), FDiv(n, 5)))

section_score(text, min_len) ==
  LET t   == clean(text)
      raw == FAdd(coverage_points(Len(t), min_len), signal_points(signals(t)))
  IN  IF t = <<>> THEN 0
      ELSE Max(0, Min(100, round(raw)))

\* keyword_analysis with the score taken from the truncated list
keyword_analysis_truncated(text) ==
  LET low   == lower(text)
      found == sorted({ GLOBAL_KEYWORDS[i] : i \in
                          { j \in 1..Len(GLOBAL_KEYWORDS) :
                              Contains(GLOBAL_KEYWORDS[j], low) } })
      shown == SubSeq(found, 1, Min(10, Len(found)))
      score == IF Len(GLOBAL_KEYWORDS) # 0
               THEN round(FDiv(100 * Len(shown), Len(GLOBAL_KEYWORDS)))
               ELSE 0
  IN  [ score |-> score, found |-> shown, total |-> Len(GLOBAL_KEYWORDS) ]

keyword_analysis(text) ==
  LET low   == lower(text)
      found == sorted({ GLOBAL_KEYWORDS[i] : i \in
                          { j \in 1..Len(GLOBAL_KEYWORDS) :
                              Contains(GLOBAL_KEYWORDS[j], low) } })
      score == IF Len(GLOBAL_KEYWORDS) # 0
               THEN round(FDiv(100 * Len(found), Len(GLOBAL_KEYWORDS)))
               ELSE 0
  IN  [ score |-> score,
        found |-> SubSeq(found, 1, Min(10, Len(found))),
        total |-> Len(GLOBAL_KEYWORDS) ]

\* the weights dict of overall_from_subs, in insertion order
weights ==
  << <<"headline",   FDiv(25, 100)>>,
     <<"about",      FDiv(25, 100)>>,
     <<"experience", FDiv(35, 100)>>,
     <<"skills",     FDiv(15, 100)>> >>

\* sum(subs.get(k,0)*w for k,w in weights.items()), left to right from 0
RECURSIVE weighted_sum(_, _)
weighted_sum(subs, n) ==
  IF n = 0 THEN FZero
  ELSE FAdd(weighted_sum(subs, n - 1),
            FMul(get(subs, weights[n][1], 0), weights[n][2]))

\* overall_from_subs without the clamp to 0..100
overall_from_subs_unclamped(subs, kw_bonus) ==
  LET base  == weighted_sum(subs, Len(weights))
      bonus == FMin(FromInt(5), FDiv(kw_bonus, 10))
  IN  round(FAdd(base, bonus))

overall_from_subs(subs, kw_bonus) ==
  LET base  == weighted_sum(subs, Len(weights))
      bonus == FMin(FromInt(5), FDiv(kw_bonus, 10))
  IN  Max(0, Min(100, round(FAdd(base, bonus))))

\* score_profile with every slot of the payload in the keyword text
score_profile_all_slots(fields) ==
  LET headline   == get(fields, "headline", <<>>)
      about      == get(fields, "about", <<>>)
      experience == get(fields, "experience", <<>>)
      skills     == get(fields, "skills", <<>>)
      sub_scores == [ headline   |-> section_score(headline, 20),
                      about      |-> section_score(about, 80),
                      experience |-> section_score(experience, 120),
                      skills     |-> section_score(skills, 10) ]
      all_text   == join(<<headline, about, experience,
                           get(fields, "education", <<>>), skills,
                           get(fields, "certs", <<>>),
                           get(fields, "recommendations", <<>>)>>)
      kw         == keyword_analysis(all_text)
      overall    == overall_from_subs(sub_scores, kw.score)
  IN  [ overall_score    |-> overall,
        sub_scores       |-> sub_scores,
        keyword_analysis |-> kw,
        version          |-> "0.2.1" ]

score_profile(fields) ==
  LET headline   == get(fields, "headline", <<>>)
      about      == get(fields, "about", <<>>)
      experience == get(fields, "experience", <<>>)
      skills     == get(fields, "skills", <<>>)
      sub_scores == [ headline   |-> section_score(headline, 20),
                      about      |-> section_score(about, 80),
                      experience |-> section_score(experience, 120),
                      skills     |-> section_score(skills, 10) ]
      all_text   == join(<<headline, about, experience, skills>>)
      kw         == keyword_analysis(all_text)
      overall    == overall_from_subs(sub_scores, kw.score)
  IN  [ overall_score    |-> overall,
        sub_scores       |-> sub_scores,
        keyword_analysis |-> kw,
        version          |-> "0.2.1" ]

vars == <<GLOBAL_KEYWORDS, call, ret, req, frame>>

\* no request is being served
NoRequests == req = <<>> /\ frame = <<>>

(***************************************************************************)
(* section_score as a pure function: the inputs are drawn by InitSection,  *)
(* the actions apply it to the text and to the text with something         *)
(* appended.                                                               *)
(***************************************************************************)
\* the min_len arguments score_profile passes
MIN_LENS == {20, 80, 120, 10}

P_LED ==
  <<"L","e","d"," ","a"," ","t","e","a","m"," ","t","o"," ","d","e",
    "l","i","v","e","r"," ","a","n","d"," ","i","m","p","r","o","v",
    "e"," ","r","e","s","u","l","t","s",",">>

P_ACHIEVED ==
  <<" ","a","c","h","i","e","v","e","d"," ","i","n","c","r","e","a",
    "s","e","d"," ","r","e","v","e","n","u","e">>

P_LEAD3 == <<"L","e","a","d"," ","L","E","A","D"," ","l","e","a","d">>

P_BLANK == <<" ","\t","\n"," ">>

PIECES == <<P_LED, P_ACHIEVED, P_LEAD3, P_BLANK>>

\* a section text is at most MaxPieces pieces followed by a run of filler
MaxPieces == 2

\* the concatenation of the pieces numbered ps
RECURSIVE Flatten(_, _)
Flatten(pieces, ps) ==
  IF ps = <<>> THEN <<>> ELSE pieces[Head(ps)] \o Flatten(pieces, Tail(ps))

\* the texts made of at most MaxPieces of the pieces
TextsOf(pieces) ==
  { Flatten(pieces, ps) :
      ps \in UNION { [1..k -> 1..Len(pieces)] : k \in 0..MaxPieces } }

Filler(n) == [ i \in 1..n |-> "0" ]

\* filler lengths: none, and ten characters short of saturation
Pads(min_len) == {0, 4 * min_len - 10}

SectionTexts(min_len) ==
  { t \o Filler(n) : t \in TextsOf(PIECES), n \in Pads(min_len) }

InitSection ==
  /\ GLOBAL_KEYWORDS = KEYWORD_BANK
  /\ NoRequests
  /\ call \in UNION { { [fn |-> "section_score", text |-> t, min_len |-> m] :
                            t \in SectionTexts(m) } : m \in MIN_LENS }
  /\ ret = NONE

\* section_score(text, min_len)
ScoreSection ==
  /\ ret = NONE
  /\ ret' = [ kind   |-> "once",
              text2  |-> call.text,
              score  |-> section_score(call.text, call.min_len),
              score2 |-> section_score(call.text, call.min_len) ]
  /\ UNCHANGED <<GLOBAL_KEYWORDS, call, req, frame>>

\* section_score of the text and of the text followed by a space and the
\* signal word number w
ScoreAppendSignal(w) ==
  /\ ret = NONE
  /\ LET text2 == call.text \o <<" ">> \o SIGNAL_WORDS[w]
     IN  ret' = [ kind   |-> "signal",
                  text2  |-> text2,
                  score  |-> section_score(call.text, call.min_len),
                  score2 |-> section_score(text2, call.min_len) ]
  /\ UNCHANGED <<GLOBAL_KEYWORDS, call, req, frame>>

\* section_score of the text and of the text followed by n filler characters
ScoreAppendFiller(n) ==
  /\ ret = NONE
  /\ LET text2 == call.text \o Filler(n)
     IN  ret' = [ kind   |-> "filler",
                  text2  |-> text2,
                  score  |-> section_score(call.text, call.min_len),
                  score2 |-> section_score(text2, call.min_len) ]
  /\ UNCHANGED <<GLOBAL_KEYWORDS, call, req, frame>>

NextSection ==
  \/ ScoreSection
  \/ \E w \in 1..Len(SIGNAL_WORDS) : ScoreAppendSignal(w)
  \/ \E n \in {1, 7} : ScoreAppendFiller(n)

SpecSection == InitSection /\ [][NextSection]_vars

\* the signal words that occur in the normalized text t
SignalHits(t) ==
  LET low == lower(t)
  IN  { i \in 1..Len(SIGNAL_WORDS) : Occurrences(SIGNAL_WORDS[i], low) > 0 }

\* C5: appending a space and a signal word to a section text never lowers
\* its section_score, for every min_len score_profile uses.
C5_Monotone ==
  ret.kind = "signal" => ret.score2 >= ret.score

C5_Witness ==
  /\ ret.kind = "signal"
  /\ ret.score > 0
  /\ ret.score2 > ret.score

\* C6: once the normalized length is at least 4 x min_len the coverage part
\* is exactly 60 points, so two such texts with the same signal-word hits
\* have the same section_score whatever their lengths.
C6_Saturation ==
  ret # NONE =>
    LET cap == 4 * call.min_len
        t1  == clean(call.text)
        t2  == clean(ret.text2)
    IN  /\ Len(t1) >= cap => coverage_points(Len(t1), call.min_len) = FromInt(60)
        /\ Len(t2) >= cap => coverage_points(Len(t2), call.min_len) = FromInt(60)
        /\ (Len(t1) >= cap /\ Len(t2) >= cap /\ SignalHits(t1) = SignalHits(t2))
             => ret.score = ret.score2

C6_Witness ==
  /\ ret.kind = "filler"
  /\ Len(clean(call.text)) >= 4 * call.min_len
  /\ Len(clean(ret.text2)) > Len(clean(call.text))
  /\ ret.score2 = ret.score
  /\ ret.score > 60

\* the score of a non-empty section of normalized length L whose signal
\* part is pts points
ScoreWithSignalPoints(L, min_len, pts) ==
  Max(0, Min(100, round(FAdd(coverage_points(L, min_len), FromInt(pts)))))

\* C8 as stated: five or more occurrences of signal words, repeated ones
\* included, earn a non-empty section the full 40 signal points.
C8_Original ==
  ret # NONE =>
    LET t == clean(call.text)
    IN  (t # <<>> /\ SumOccurrences(lower(t), Len(SIGNAL_WORDS)) >= 5)
          => ret.score = ScoreWithSignalPoints(Len(t), call.min_len, 40)

\* C8 amended: the signal count is the number of distinct signal words that
\* occur in the section, a repeated word counting once; each is worth 8
\* points and five or more distinct words earn the full 40.
C8_Distinct ==
  ret # NONE =>
    LET t == clean(call.text)
    IN  t # <<>> =>
          ret.score = ScoreWithSignalPoints(Len(t), call.min_len,
                        8 * Min(5, Cardinality(SignalHits(t))))

C8_Witness ==
  /\ ret # NONE
  /\ LET t == clean(call.text)
     IN  /\ Cardinality(SignalHits(t)) >= 5
         /\ ret.score = ScoreWithSignalPoints(Len(t), call.min_len, 40)

(***************************************************************************)
(* keyword_analysis as a pure function                                     *)
(***************************************************************************)
K_RICH ==
  <<"L","e","a","d","e","r","s","h","i","p"," ","o","f"," ","p","r",
    "o","d","u","c","t"," ","s","t","r","a","t","e","g","y"," ","a",
    "n","d"," ","g","r","o","w","t","h",","," ","m","a","n","a","g",
    "e","d"," ","a"," ","d","a","t","a"," ","a","n","a","l","y","s",
    "i","s"," ","t","e","a","m",","," ","l","a","u","n","c","h","e",
    "d"," ","A","I"," ","i","n","n","o","v","a","t","i","o","n",",",
    " ","b","u","i","l","t"," ","P","y","t","h","o","n"," ","a","n",
    "d"," ","S","Q","L"," ","p","i","p","e","l","i","n","e","s",",",
    " ","i","m","p","r","o","v","e","d"," ","c","u","s","t","o","m",
    "e","r"," ","r","e","s","u","l","t","s"," ","a","n","d"," ","r",
    "e","v","e","n","u","e">>

K_EXTRA ==
  <<"P","y","t","h","o","n",","," ","S","Q","L",","," ","E","x","c",
    "e","l">>

K_PROBLEM == <<"P","r","o","b","l","e","m"," ">>

K_SOLVING == <<"s","o","l","v","i","n","g">>

K_KPI == <<"K","P","I",","," ","o","k","r">>

K_STAKE ==
  <<"s","t","a","k","e","h","o","l","d","e","r"," ","m","a","n","a",
    "g","e","m","e","n","t",","," ","c","o","m","m","u","n","i","c",
    "a","t","i","o","n">>

KW_PIECES ==
  <<K_RICH, K_EXTRA, K_PROBLEM, K_SOLVING, K_KPI, K_STAKE, P_LED, P_BLANK>>

InitKeyword ==
  /\ GLOBAL_KEYWORDS = KEYWORD_BANK
  /\ NoRequests
  /\ call \in { [fn |-> "keyword_analysis", text |-> t] : t \in TextsOf(KW_PIECES) }
  /\ ret = NONE

\* keyword_analysis(text)
AnalyzeKeywords ==
  /\ ret = NONE
  /\ ret' = [ kind |-> "keywords", kw |-> keyword_analysis(call.text) ]
  /\ UNCHANGED <<GLOBAL_KEYWORDS, call, req, frame>>

NextKeyword == AnalyzeKeywords

SpecKeyword == InitKeyword /\ [][NextKeyword]_vars

\* the bank keywords that occur in the lower-cased text
Matched(text) ==
  LET low == lower(text)
  IN  { GLOBAL_KEYWORDS[i] : i \in
          { j \in 1..Len(GLOBAL_KEYWORDS) : Occurrences(GLOBAL_KEYWORDS[j], low) > 0 } }

\* C7: score = round(100 x M / N) with M the full number of matched bank
\* keywords and N the bank size, found = the first min(M, 10) matched
\* keywords in sorted order, total = N; a bank of 28 with 14 matches
\* scores 50 by this rule.
C7_KeywordScore ==
  ret # NONE =>
    LET hit == Matched(call.text)
        M   == Cardinality(hit)
        N   == Len(GLOBAL_KEYWORDS)
    IN  /\ ret.kw.score = round(FDiv(100 * M, N))
        /\ ret.kw.total = N
        /\ Len(ret.kw.found) = Min(M, 10)
        /\ \A k \in 1..Len(ret.kw.found) :
             /\ ret.kw.found[k] \in hit
             /\ Cardinality({ h \in hit : StrLess(h, ret.kw.found[k]) }) = k - 1
        /\ round(FDiv(100 * 14, 28)) = 50

C7_Witness ==
  /\ ret # NONE
  /\ Cardinality(Matched(call.text)) = 14
  /\ Len(ret.kw.found) = 10
  /\ ret.kw.score = 52

(***************************************************************************)
(* overall_from_subs as a pure function                                    *)
(***************************************************************************)
SUB_SAMPLES == {0, 1, 2, 3, 50, 100}

KW_SAMPLES == {0, 10, 48, 52, 100}

InitOverall ==
  /\ GLOBAL_KEYWORDS = KEYWORD_BANK
  /\ NoRequests
  /\ call \in { [fn |-> "overall_from_subs",
                 subs |-> [headline |-> h, about |-> a, experience |-> e, skills |-> k],
                 kw_bonus |-> b] :
                  h \in SUB_SAMPLES, a \in SUB_SAMPLES, e \in SUB_SAMPLES,
                  k \in SUB_SAMPLES, b \in KW_SAMPLES }
  /\ ret = NONE

\* overall_from_subs(subs, kw_bonus), and the same with a keyword score of 0
ScoreOverall ==
  /\ ret = NONE
  /\ ret' = [ kind       |-> "overall",
              overall    |-> overall_from_subs(call.subs, call.kw_bonus),
              overall_kw0 |-> overall_from_subs(call.subs, 0) ]
  /\ UNCHANGED <<GLOBAL_KEYWORDS, call, req, frame>>

NextOverall == ScoreOverall

SpecOverall == InitOverall /\ [][NextOverall]_vars

\* C2: the keyword score raises overall_score by at most 5 points.
C2_BonusCap ==
  ret # NONE => ret.overall - ret.overall_kw0 <= 5

(***************************************************************************)
(* score_profile as a pure function of the payload mapping                 *)
(***************************************************************************)
\* the slots of AnalyzeReq
SLOTS ==
  {"headline", "about", "experience", "education", "skills", "certs",
   "recommendations"}

\* the slots score_profile reads
SCORED == {"headline", "about", "experience", "skills"}

\* marks a slot that is missing from the mapping
ABSENT == <<"absent">>

S_SHORT == P_LED \o P_ACHIEVED

\* K_RICH filled up to n characters
S_LONG(n) == K_RICH \o Filler(n - Len(K_RICH))

\* what a scored slot may hold: nothing, "", whitespace, or one text
SlotTexts(k) ==
  {ABSENT, <<>>, P_BLANK} \cup
  CASE k = "headline"   -> {K_RICH}
    [] k = "about"      -> {S_LONG(4 * 80)}
    [] k = "experience" -> {S_LONG(4 * 120)}
    [] k = "skills"     -> {S_SHORT}

\* what the three other slots may hold: all missing, or blank and empty
EXTRAS ==
  { [education |-> ABSENT, certs |-> ABSENT, recommendations |-> ABSENT],
    [education |-> <<>>, certs |-> P_BLANK, recommendations |-> ABSENT] }

\* other contents of the three other slots
EXTRA_VARIANTS ==
  { [education |-> K_EXTRA, certs |-> K_STAKE, recommendations |-> S_SHORT],
    [education |-> ABSENT, certs |-> <<>>, recommendations |-> K_EXTRA] }

\* the mapping that holds c[k] at every slot k where c[k] is not ABSENT
Mapping(c) == [ k \in { j \in DOMAIN c : c[j] # ABSENT } |-> c[k] ]

\* the choice c with the three other slots taken from x
WithExtras(c, x) ==
  [ k \in SLOTS |-> IF k \in SCORED THEN c[k] ELSE x[k] ]

\* the mappings score_profile is called with
PROFILES ==
  { Mapping(WithExtras(
      [headline |-> h, about |-> a, experience |-> e, skills |-> k], x)) :
      h \in SlotTexts("headline"), a \in SlotTexts("about"),
      e \in SlotTexts("experience"), k \in SlotTexts("skills"), x \in EXTRAS }

InitProfile ==
  /\ GLOBAL_KEYWORDS = KEYWORD_BANK
  /\ NoRequests
  /\ call \in { [fn |-> "score_profile", fields |-> f] : f \in PROFILES }
  /\ ret = NONE

\* score_profile(fields)
ScoreProfile ==
  /\ ret = NONE
  /\ LET report == score_profile(call.fields)
     IN  ret' = [ kind    |-> "profile",
                  fields2 |-> call.fields,
                  report  |-> report,
                  report2 |-> report ]
  /\ UNCHANGED <<GLOBAL_KEYWORDS, call, req, frame>>

\* score_profile of the mapping and of a mapping that differs from it in
\* the education, certs and recommendations slots only
ScoreProfileVariant(x) ==
  /\ ret = NONE
  /\ LET fields2 == Mapping(WithExtras(
                      [ k \in SCORED |-> get(call.fields, k, ABSENT) ], x))
     IN  ret' = [ kind    |-> "variant",
                  fields2 |-> fields2,
                  report  |-> score_profile(call.fields),
                  report2 |-> score_profile(fields2) ]
  /\ UNCHANGED <<GLOBAL_KEYWORDS, call, req, frame>>

NextProfile ==
  \/ ScoreProfile
  \/ \E x \in EXTRA_VARIANTS : ScoreProfileVariant(x)

SpecProfile == InitProfile /\ [][NextProfile]_vars

InRange(n) == n \in 0..100

\* C1: the four sub-scores, the keyword score and the overall score of a
\* report are integers in 0..100.
C1_Ranges ==
  ret # NONE =>
    /\ \A k \in SCORED : InRange(ret.report.sub_scores[k])
    /\ DOMAIN ret.report.sub_scores = SCORED
    /\ InRange(ret.report.keyword_analysis.score)
    /\ InRange(ret.report.overall_score)

C1_Witness ==
  /\ ret # NONE
  /\ ret.report.overall_score = 100
  /\ \A k \in SCORED : ret.report.sub_scores[k] = 100
  /\ ret.report.keyword_analysis.score > 50

\* every slot of the mapping is empty, whitespace-only or missing
AllBlank(fields) ==
  \A k \in DOMAIN fields : \A i \in 1..Len(fields[k]) : isspace(fields[k][i])

\* C3: when every slot is empty, whitespace-only or missing, the overall
\* score, every sub-score and the keyword score are 0 and found is empty.
C3_EmptyProfile ==
  (ret # NONE /\ AllBlank(call.fields)) =>
    /\ ret.report.overall_score = 0
    /\ \A k \in SCORED : ret.report.sub_scores[k] = 0
    /\ ret.report.keyword_analysis.score = 0
    /\ ret.report.keyword_analysis.found = <<>>

C3_Witness ==
  /\ ret # NONE
  /\ AllBlank(call.fields)
  /\ "headline" \notin DOMAIN call.fields
  /\ get(call.fields, "about", ABSENT) = <<>>
  /\ get(call.fields, "skills", ABSENT) = P_BLANK
  /\ ret.report.overall_score = 0

\* C10: two mappings that agree on headline, about, experience and skills
\* get identical reports, whatever education, certs and recommendations
\* hold or whether they are present.
C10_IgnoredSlots ==
  (ret # NONE /\ \A k \in SCORED :
       get(call.fields, k, ABSENT) = get(ret.fields2, k, ABSENT))
    => ret.report = ret.report2

C10_Witness ==
  /\ ret.kind = "variant"
  /\ ret.fields2 # call.fields
  /\ "education" \in DOMAIN ret.fields2
  /\ "education" \notin DOMAIN call.fields
  /\ ret.report = ret.report2
  /\ ret.report.overall_score > 0

(***************************************************************************)
(* main.py: the handlers analyze and analyze_pdf.  FastAPI runs them on a  *)
(* thread pool, so the requests in flight interleave statement by          *)
(* statement, the statements of score_profile included.                    *)
(***************************************************************************)
\* the number of requests served
NumReqs == 2

Requests == 1..NumReqs

MAX_PDF_BYTES == 20 * 1024 * 1024

\* AnalyzeReq(**given).dict(): every slot, "" where none was given
AnalyzeReq(given) == [ k \in SLOTS |-> get(given, k, <<>>) ]

PAYLOADS ==
  { AnalyzeReq([headline |-> K_KPI]),
    AnalyzeReq([about |-> P_LEAD3, education |-> K_EXTRA]) }

\* an upload: its size in bytes, whether pdfplumber raises on it, and the
\* text of its pages otherwise
FILES ==
  { [size |-> MAX_PDF_BYTES + 1, corrupt |-> FALSE, text |-> K_EXTRA],
    [size |-> 1024,              corrupt |-> TRUE,  text |-> <<>>],
    [size |-> 1024,              corrupt |-> FALSE, text |-> P_BLANK],
    [size |-> MAX_PDF_BYTES,     corrupt |-> FALSE, text |-> <<>>],
    [size |-> 1024,              corrupt |-> FALSE, text |-> K_EXTRA] }

\* int((time.time() - t0) * 1000)
LATENCIES == {0, 1}

IDLE ==
  [ handler |-> "none", pc |-> "idle", file |-> NONE, all_text |-> <<>>,
    fields |-> <<>>, data |-> NONE, response |-> NONE,
    extracted |-> FALSE, invoked |-> FALSE ]

\* the locals of a call of score_profile before its first statement
NO_LOCALS ==
  [ headline |-> <<>>, about |-> <<>>, experience |-> <<>>, skills |-> <<>>,
    sub_scores |-> [headline |-> 0, about |-> 0, experience |-> 0, skills |-> 0],
    kw |-> [score |-> 0, found |-> <<>>, total |-> 0] ]

\* all calls sharing one set of variables, as module-level names would
FrameOf_shared(r) == 1

\* every call of score_profile has local variables of its own
FrameOf(r) == r

\* not all_text, without the .strip()
IsBlank_nostrip(all_text) == all_text = <<>>

\* not all_text.strip()
IsBlank(all_text) == \A i \in 1..Len(all_text) : isspace(all_text[i])

\* s[:n]
Prefix(s, n) == SubSeq(s, 1, Min(n, Len(s)))

\* s[-n:]
Suffix(s, n) == SubSeq(s, Max(1, Len(s) - n + 1), Len(s))

HTTPException(status_code, detail) ==
  [ status |-> status_code, body |-> [detail |-> detail] ]

Init ==
  /\ GLOBAL_KEYWORDS = KEYWORD_BANK
  /\ call = NONE
  /\ ret = NONE
  /\ req = [ r \in Requests |-> IDLE ]
  /\ frame = [ r \in Requests |-> NO_LOCALS ]

\* POST /analyze arrives: data = score_profile(payload.dict()) is called
Analyze(r, payload) ==
  /\ req[r].pc = "idle"
  /\ req' = [req EXCEPT ![r].handler = "analyze",
                        ![r].fields = payload,
                        ![r].pc = "sp_enter"]
  /\ UNCHANGED <<GLOBAL_KEYWORDS, call, ret, frame>>

\* POST /analyze_pdf arrives: the upload is read and its size checked
AnalyzePdf(r, file) ==
  /\ req[r].pc = "idle"
  /\ LET raw_len == Min(file.size, MAX_PDF_BYTES + 1)
     IN  req' = IF raw_len > MAX_PDF_BYTES
               THEN [req EXCEPT ![r].handler = "analyze_pdf",
                                ![r].file = file,
                                ![r].response =
                                   HTTPException(413, "PDF too large (max 20MB)."),
                                ![r].pc = "done"]
               ELSE [req EXCEPT ![r].handler = "analyze_pdf",
                                ![r].file = file,
                                ![r].pc = "pdf_extract"]
  /\ UNCHANGED <<GLOBAL_KEYWORDS, call, ret, frame>>

\* the text of the pages is extracted, or pdfplumber raises
PdfExtract(r) ==
  /\ req[r].pc = "pdf_extract"
  /\ req' = IF req[r].file.corrupt
            THEN [req EXCEPT ![r].extracted = TRUE,
                             ![r].response = HTTPException(400, "Failed to read PDF"),
                             ![r].pc = "done"]
            ELSE [req EXCEPT ![r].extracted = TRUE,
                             ![r].all_text = req[r].file.text,
                             ![r].pc = "pdf_check"]
  /\ UNCHANGED <<GLOBAL_KEYWORDS, call, ret, frame>>

\* blank text is answered at once, other text is sliced into fields
PdfCheck(r) ==
  /\ req[r].pc = "pdf_check"
  /\ LET all_text == req[r].all_text
     IN  req' = IF IsBlank(all_text)
               THEN [req EXCEPT
                       ![r].response =
                          [ status |-> 200,
                            body |-> [ error |-> "Could not extract text from PDF",
                                       overall_score |-> 0,
                                       sub_scores |-> [headline |-> 0, about |-> 0,
                                                       experience |-> 0, skills |-> 0],
                                       _source |-> "pdf",
                                       latency_ms |-> 0,
                                       version |-> "0.3.0" ] ],
                       ![r].pc = "done"]
               ELSE [req EXCEPT
                       ![r].fields = [ headline   |-> <<>>,
                                       about      |-> Prefix(all_text, 1500),
                                       experience |-> Prefix(all_text, 4000),
                                       skills     |-> Suffix(all_text, 1500) ],
                       ![r].pc = "sp_enter"]
  /\ UNCHANGED <<GLOBAL_KEYWORDS, call, ret, frame>>

\* score_profile is entered and reads the four slots into its locals
SP_Enter(r) ==
  /\ req[r].pc = "sp_enter"
  /\ frame' = [frame EXCEPT ![FrameOf(r)] =
                 [ NO_LOCALS EXCEPT
                     !.headline   = get(req[r].fields, "headline", <<>>),
                     !.about      = get(req[r].fields, "about", <<>>),
                     !.experience = get(req[r].fields, "experience", <<>>),
                     !.skills     = get(req[r].fields, "skills", <<>>) ]]
  /\ req' = [req EXCEPT ![r].invoked = TRUE, ![r].pc = "sp_sections"]
  /\ UNCHANGED <<GLOBAL_KEYWORDS, call, ret>>

\* sub_scores = {...}
SP_Sections(r) ==
  /\ req[r].pc = "sp_sections"
  /\ LET loc == frame[FrameOf(r)]
     IN  frame' = [frame EXCEPT ![FrameOf(r)].sub_scores =
                     [ headline   |-> section_score(loc.headline, 20),
                       about      |-> section_score(loc.about, 80),
                       experience |-> section_score(loc.experience, 120),
                       skills     |-> section_score(loc.skills, 10) ]]
  /\ req' = [req EXCEPT ![r].pc = "sp_keywords"]
  /\ UNCHANGED <<GLOBAL_KEYWORDS, call, ret>>

\* all_text = " ".join(...); kw = keyword_analysis(all_text)
SP_Keywords(r) ==
  /\ req[r].pc = "sp_keywords"
  /\ LET loc == frame[FrameOf(r)]
     IN  frame' = [frame EXCEPT ![FrameOf(r)].kw =
                     keyword_analysis(join(<<loc.headline, loc.about,
                                             loc.experience, loc.skills>>))]
  /\ req' = [req EXCEPT ![r].pc = "sp_return"]
  /\ UNCHANGED <<GLOBAL_KEYWORDS, call, ret>>

\* overall = overall_from_subs(...); the report is returned to the handler
SP_Return(r) ==
  /\ req[r].pc = "sp_return"
  /\ LET loc == frame[FrameOf(r)]
     IN  req' = [req EXCEPT
                   ![r].data = [ overall_score    |->
                                   overall_from_subs(loc.sub_scores, loc.kw.score),
                                 sub_scores       |-> loc.sub_scores,
                                 keyword_analysis |-> loc.kw,
                                 version          |-> "0.2.1" ],
                   ![r].pc = "attach"]
  /\ frame' = [frame EXCEPT ![FrameOf(r)] = NO_LOCALS]
  /\ UNCHANGED <<GLOBAL_KEYWORDS, call, ret>>

\* data["latency_ms"] = ...; data["_source"] = ...; return data
Attach(r, ms) ==
  /\ req[r].pc = "attach"
  /\ req' = [req EXCEPT
               ![r].response =
                  [ status |-> 200,
                    body |-> req[r].data @@
                             [ latency_ms |-> ms,
                               _source |-> IF req[r].handler = "analyze"
                                           THEN "text" ELSE "pdf" ] ],
               ![r].pc = "done"]
  /\ UNCHANGED <<GLOBAL_KEYWORDS, call, ret, frame>>

Next ==
  \E r \in Requests :
    \/ \E payload \in PAYLOADS : Analyze(r, payload)
    \/ \E file \in FILES : AnalyzePdf(r, file)
    \/ PdfExtract(r)
    \/ PdfCheck(r)
    \/ SP_Enter(r)
    \/ SP_Sections(r)
    \/ SP_Keywords(r)
    \/ SP_Return(r)
    \/ \E ms \in LATENCIES : Attach(r, ms)

Spec == Init /\ [][Next]_vars

\* the request has been answered with a report score_profile computed
Scored(r) == req[r].pc = "done" /\ req[r].invoked

\* the part of a response body that score_profile returned
EngineReport(body) ==
  [ overall_score    |-> body.overall_score,
    sub_scores       |-> body.sub_scores,
    keyword_analysis |-> body.keyword_analysis,
    version          |-> body.version ]

\* C4: under any interleaving of the calls every call returns the report it
\* returns when run alone on its input, calls with identical input return
\* identical reports, and GLOBAL_KEYWORDS is never modified, the callers'
\* additions of latency_ms and _source included.
C4_Reentrant ==
  /\ GLOBAL_KEYWORDS = KEYWORD_BANK
  /\ \A r \in Requests :
       /\ req[r].pc = "attach" => req[r].data = score_profile(req[r].fields)
       /\ Scored(r) =>
            EngineReport(req[r].response.body) = score_profile(req[r].fields)
  /\ \A r1, r2 \in Requests :
       (Scored(r1) /\ Scored(r2) /\ req[r1].fields = req[r2].fields)
         => EngineReport(req[r1].response.body) = EngineReport(req[r2].response.body)

C4_Witness ==
  \E r1, r2 \in Requests :
    /\ r1 # r2
    /\ Scored(r1) /\ Scored(r2)
    /\ req[r1].fields = req[r2].fields
    /\ req[r1].response.body.latency_ms # req[r2].response.body.latency_ms
    /\ req[r1].response.body.overall_score > 0
    /\ EngineReport(req[r1].response.body) = EngineReport(req[r2].response.body)

\* the upload passed the size check
SizeOk(file) == file.size <= MAX_PDF_BYTES

\* extraction of the upload fails: the extractor throws or the text is blank
ExtractionFails(file) ==
  file.corrupt \/ \A i \in 1..Len(file.text) : isspace(file.text[i])

\* a report with overall_score 0, all section scores 0 and a note
ZeroReportWithNote(response) ==
  /\ response.status = 200
  /\ {"error", "overall_score", "sub_scores"} \subseteq DOMAIN response.body
  /\ response.body.overall_score = 0
  /\ \A k \in SCORED : response.body.sub_scores[k] = 0

PdfDone(r) == req[r].handler = "analyze_pdf" /\ req[r].pc = "done"

\* score_profile runs only after the size check passed and extraction
\* produced non-blank text
InvokedOnlyOnText(r) ==
  (req[r].handler = "analyze_pdf" /\ req[r].invoked)
    => (SizeOk(req[r].file) /\ ~ExtractionFails(req[r].file))

====
